---- MODULE Spec2Model ----
(***************************************************************************)
(* Model of the image-poet backend: the upload orchestrator                *)
(* (ImageService.save_uploaded_file), the record store, the local upload   *)
(* directory, the object-store bucket, the generation client               *)
(* (PoetryService) and the HTTP handlers of app/api/v1/images.py,          *)
(* including the detached background generation task.                      *)
(*                                                                         *)
(* Conventions.                                                            *)
(*  - An Optional[T] value is a sequence: <<>> is None, <<v>> is v.        *)
(*  - A Python str that the code inspects (a filename, an API reply, a     *)
(*    title) is a sequence of tokens.  In a reply the token "T" stands for *)
(*    the marker text 'Title:', "K" for the Korean marker, " " and "\n"    *)
(*    are whitespace and every other token is ordinary text.  A line that  *)
(*    starts with a marker has its first ':' inside the marker, so         *)
(*    split(':', 1)[1] is the line without its first token.                *)
(*  - All handlers are "async def" and run on one event loop; a handler    *)
(*    is one action unless it suspends in asyncio.sleep (the background    *)
(*    task), which splits it into steps.                                   *)
(***************************************************************************)
EXTENDS Integers, Sequences, FiniteSets, TLC

\* ---------------------------------------------------------------- bounds
MaxUploads == 2
MaxFaultyUploads == 1
MaxTasks == 1
MaxGenerate == 1
MaxReplyLen == 4
MaxRows == 102
MaxKeys == 2

\* ------------------------------------------------------- program constants
MAX_FILE_SIZE == 10485760
\* a retry loop that gives up one attempt early
max_retries_short == 3 - 1

\* a retry loop with one attempt more
max_retries_long == 3 + 1

max_retries == 3

ALLOWED_EXTENSIONS ==
    { <<".", "jpg">>, <<".", "jpeg">>, <<".", "png">>, <<".", "webp">>, <<".", "gif">> }

ALLOWED_MIME_TYPES ==
    { "image/jpeg", "image/jpg", "image/png", "image/webp", "image/gif" }

VARIABLES
    settings,   \* [USE_S3_STORAGE, S3_BUCKET_NAME] (bucket name set or not)
    dbEngine,   \* "sqlite" (rowid = max + 1) or "sequence" (never reissued)
    records,    \* the images table: id -> row
    lastId,     \* highest id ever issued (the sequence's value)
    disk,       \* uploads/ directory: file name -> decodable as an image
    bucket,     \* keys present in the S3 bucket
    uuidCtr,    \* number of uuid4() file names drawn so far
    clock,      \* datetime.utcnow(), advanced by every row write
    tasks,      \* scheduled background tasks, in scheduling order
    ngen,       \* number of POST /generate-poetry requests handled
    req,        \* the HTTP request being answered, op "none" when idle
    resp,       \* the response to it
    deleted     \* ids for which DELETE has answered 200

vars == << settings, dbEngine, records, lastId, disk, bucket, uuidCtr, clock,
           tasks, ngen, req, resp, deleted >>

\* ------------------------------------------------------------ python-isms
None == <<>>

Some(v) == <<v>>

\* truthiness of an Optional[str] held as tokens, of an Optional atomic
\* string and of an Optional[int]
TruthySeq(o) == o # None /\ o[1] # <<>>

TruthyStr(o) == o # None /\ o[1] # ""

TruthyInt(o) == o # None /\ o[1] # 0

Max(S) == CHOOSE m \in S : \A x \in S : x <= m

\* a lower() that leaves its argument alone
Lower_identity(s) == s

\* str.lower() on filename tokens
LowerTok(t) == IF t = "JPG" THEN "jpg" ELSE IF t = "A" THEN "a" ELSE t

Lower(s) == [i \in 1..Len(s) |-> LowerTok(s[i])]

\* str.rfind('.') as a 1-based index, 0 when there is none
rfind_dot(s) ==
    IF \E i \in 1..Len(s) : s[i] = "."
    THEN Max({ i \in 1..Len(s) : s[i] = "." })
    ELSE 0

\* pathlib: PurePath.suffix -- the text from the last dot of the final
\* component, empty for a leading or a trailing dot
_get_file_extension(filename) ==
    LET i == rfind_dot(filename)
    IN IF 1 < i /\ i < Len(filename)
       THEN SubSeq(filename, i, Len(filename))
       ELSE <<>>

\* ----------------------------------------------------------- S3Service
\* S3Service.__init__ builds a client exactly when USE_S3_STORAGE is set
s3_client == settings.USE_S3_STORAGE

is_available == s3_client /\ settings.S3_BUCKET_NAME

\* ---------------------------------------------------------- validation
OK == [status |-> 200, detail |-> "ok"]

\* a validator that looks at the extension before the size
_validate_file_ext_first(file) ==
    IF TruthySeq(file.filename)
       /\ Lower(_get_file_extension(file.filename[1])) \notin ALLOWED_EXTENSIONS
    THEN [status |-> 400, detail |-> "File extension not allowed"]
    ELSE IF TruthyInt(file.size) /\ file.size[1] > MAX_FILE_SIZE
    THEN [status |-> 413, detail |-> "File too large"]
    ELSE IF TruthyStr(file.content_type)
            /\ file.content_type[1] \notin ALLOWED_MIME_TYPES
    THEN [status |-> 400, detail |-> "MIME type not allowed"]
    ELSE OK

_validate_file(file) ==
    IF TruthyInt(file.size) /\ file.size[1] > MAX_FILE_SIZE
    THEN [status |-> 413, detail |-> "File too large"]
    ELSE IF TruthySeq(file.filename)
            /\ Lower(_get_file_extension(file.filename[1])) \notin ALLOWED_EXTENSIONS
    THEN [status |-> 400, detail |-> "File extension not allowed"]
    ELSE IF TruthyStr(file.content_type)
            /\ file.content_type[1] \notin ALLOWED_MIME_TYPES
    THEN [status |-> 400, detail |-> "MIME type not allowed"]
    ELSE OK

\* ------------------------------------------------------------- the rows
\* file_path is either str(UPLOAD_DIR / name) or the bucket URL of the key
LocalPath(name) == [store |-> "local", name |-> name]

S3Url(key) == [store |-> "s3", name |-> key]

\* Path(file_path).exists() / os.path.exists(file_path): a bucket URL names
\* no file of the local file system
PathExists(path, d) == path.store = "local" /\ path.name \in DOMAIN d

\* a key allocator that hands out the largest live id again
NewId_live ==
    IF dbEngine = "sqlite"
    THEN Max(DOMAIN records \cup {1})
    ELSE lastId + 1

\* primary key of a new row (models/image.py: Integer primary key without
\* AUTOINCREMENT).  On the default sqlite database (core/config.py) the row id
\* is one more than the largest id in the table, so the id of a deleted last
\* row is issued again; a sequence-backed database never reissues an id.
NewId ==
    IF dbEngine = "sqlite"
    THEN Max(DOMAIN records \cup {0}) + 1
    ELSE lastId + 1

\* Image(**ImageCreate(...).dict()) with the column defaults
Image(id, name, file, storage_path, dims, ip, now) ==
    [ id                |-> id,
      filename          |-> name,
      original_filename |-> IF TruthySeq(file.filename) THEN file.filename[1]
                            ELSE <<"unknown">>,
      file_path         |-> storage_path,
      file_size         |-> IF TruthyInt(file.size) THEN file.size[1] ELSE 0,
      mime_type         |-> IF TruthyStr(file.content_type) THEN file.content_type[1]
                            ELSE "application/octet-stream",
      width             |-> dims,
      height            |-> dims,
      poetry_title      |-> None,
      poetry_content    |-> None,
      poetry_generated  |-> FALSE,
      upload_ip         |-> ip,
      created_at        |-> now,
      updated_at        |-> now ]

\* a schema without the gt=0 constraint on file_size
ImageCreateValid_any(file) == TRUE

\* ImageCreate: file_size has gt=0 (schemas/image.py)
ImageCreateValid(file) == TruthyInt(file.size) /\ file.size[1] > 0

\* _get_image_dimensions: (width, height) of a decodable file, else (None, None)
_get_image_dimensions(name, d) ==
    IF name \in DOMAIN d /\ d[name] THEN Some(100) ELSE None

Remove(d, name) == [n \in DOMAIN d \ {name} |-> d[n]]

Put(d, name, v) == [n \in DOMAIN d \cup {name} |-> IF n = name THEN v ELSE d[n]]

\* file_path.unlink() inside try/except: pass
Unlink(d, name, env) ==
    IF name \in DOMAIN d /\ ~env.unlink_fails THEN Remove(d, name) ELSE d

\* S3Service.delete_file: False when unavailable or on any error
s3_delete_file(b, key, env) ==
    IF is_available /\ ~env.s3_delete_fails THEN b \ {key} ELSE b

\* a cleanup that forgets the object-store blob
Cleanup_local_only(d, b, name, s3_key, env) ==
    [ disk |-> Unlink(d, name, env), bucket |-> b ]

\* the except branch of save_uploaded_file
Cleanup(d, b, name, s3_key, env) ==
    [ disk   |-> Unlink(d, name, env),
      bucket |-> IF s3_key # None /\ is_available
                 THEN s3_delete_file(b, s3_key[1], env) ELSE b ]

\* ------------------------------------------------ save_uploaded_file
Unchanged(status, detail) ==
    [ status |-> status, detail |-> detail, image |-> None,
      records |-> records, lastId |-> lastId, disk |-> disk, bucket |-> bucket,
      uuidCtr |-> uuidCtr, clock |-> clock, used |-> {} ]

save_uploaded_file(file, env, ip) ==
    LET v == _validate_file(file) IN
    IF v.status # 200 THEN Unchanged(v.status, v.detail)
    \* Path(None): TypeError before the try block, wrapped by upload_image
    ELSE IF file.filename = None THEN Unchanged(500, "Failed to upload image")
    ELSE
    LET name   == uuidCtr + 1
        s3mode == settings.USE_S3_STORAGE /\ is_available
        putErr == s3mode /\ env.fault = "s3_put"
        b1     == IF s3mode /\ ~putErr THEN bucket \cup {name} ELSE bucket
        s3_key == IF s3mode /\ ~putErr THEN Some(name) ELSE None
        wrErr  == ~putErr /\ env.fault = "disk_write"
        d1     == IF putErr THEN disk
                  ELSE IF wrErr THEN (IF env.partial THEN Put(disk, name, FALSE) ELSE disk)
                  ELSE Put(disk, name, env.decodable)
        path   == IF s3mode THEN S3Url(name) ELSE LocalPath(name)
        dims   == _get_image_dimensions(name, d1)
        mkErr  == ~putErr /\ ~wrErr /\ ~ImageCreateValid(file)
        cmErr  == ~putErr /\ ~wrErr /\ ~mkErr /\ env.fault = "commit"
        stored == ~putErr /\ ~wrErr /\ ~mkErr /\ ~cmErr
        id     == NewId
        now    == clock + 1
        r1     == IF stored
                  THEN Put(records, id, Image(id, name, file, path, dims, ip, now))
                  ELSE records
        rfErr  == stored /\ env.fault = "refresh"
        err    == IF putErr THEN "S3 upload failed"
                  ELSE IF wrErr THEN "Failed to save file to disk"
                  ELSE IF mkErr THEN "validation error for ImageCreate"
                  ELSE IF cmErr THEN "commit failed"
                  ELSE IF rfErr THEN "refresh failed"
                  ELSE "ok"
        cl     == Cleanup(d1, b1, name, s3_key, env)
        used   == (IF s3mode THEN {"s3_put"} ELSE {})
                  \cup (IF ~putErr THEN {"disk_write"} ELSE {})
                  \cup (IF wrErr THEN {"partial"} ELSE {})
                  \cup (IF ~putErr /\ ~wrErr THEN {"decodable"} ELSE {})
                  \cup (IF ~putErr /\ ~wrErr /\ ~mkErr THEN {"commit"} ELSE {})
                  \cup (IF stored THEN {"refresh"} ELSE {})
                  \cup (IF name \in DOMAIN d1 /\ (err # "ok" \/ settings.USE_S3_STORAGE)
                        THEN {"unlink_fails"} ELSE {})
                  \cup (IF err # "ok" /\ s3_key # None /\ is_available
                        THEN {"s3_delete_fails"} ELSE {})
    IN IF err = "ok"
       THEN [ status |-> 200, detail |-> "ok", image |-> Some(id),
              records |-> r1, lastId |-> Max({lastId, id}),
              \* "Clean up local file if using S3"
              disk |-> IF settings.USE_S3_STORAGE THEN Unlink(d1, name, env) ELSE d1,
              bucket |-> b1, uuidCtr |-> name, clock |-> now, used |-> used ]
       ELSE [ status |-> 500, detail |-> err, image |-> None,
              records |-> r1, lastId |-> IF stored THEN Max({lastId, id}) ELSE lastId,
              disk |-> cl.disk, bucket |-> cl.bucket, uuidCtr |-> name,
              clock |-> IF stored THEN now ELSE clock, used |-> used ]

\* ------------------------------------------------------- PoetryService
WS == {" ", "\n"}

RECURSIVE lstrip(_)
lstrip(s) == IF s # <<>> /\ Head(s) \in WS THEN lstrip(Tail(s)) ELSE s

RECURSIVE rstrip(_)
rstrip(s) ==
    IF s # <<>> /\ s[Len(s)] \in WS THEN rstrip(SubSeq(s, 1, Len(s) - 1)) ELSE s

\* str.strip()
strip(s) == rstrip(lstrip(s))

\* str.split('\n'): always at least one (possibly empty) line
RECURSIVE split(_)
split(s) ==
    IF \E i \in 1..Len(s) : s[i] = "\n"
    THEN LET i == CHOOSE k \in 1..Len(s) :
                      s[k] = "\n" /\ \A j \in 1..(k - 1) : s[j] # "\n"
         IN <<SubSeq(s, 1, i - 1)>> \o split(SubSeq(s, i + 1, Len(s)))
    ELSE <<s>>

\* '\n'.join(lines)
RECURSIVE join(_)
join(lines) ==
    IF lines = <<>> THEN <<>>
    ELSE IF Len(lines) = 1 THEN lines[1]
    ELSE lines[1] \o <<"\n">> \o join(Tail(lines))

\* line.startswith('제목:') or line.startswith('Title:')
IsTitleLine(line) == line # <<>> /\ line[1] \in {"K", "T"}

fallback_titles(language) ==
    IF language = "english" THEN <<"A Poem Inspired by an Image">>
    ELSE IF language = "japanese" THEN <<"japanese fallback title">>
    ELSE <<"korean fallback title">>

\* the (title, content) pair the "for i, line in enumerate(lines)" loop
\* leaves behind: set at the first title line, ("", "") when there is none
TitleScan(lines) ==
    IF \E i \in 1..Len(lines) : IsTitleLine(strip(lines[i]))
    THEN LET i == CHOOSE k \in 1..Len(lines) :
                      /\ IsTitleLine(strip(lines[k]))
                      /\ \A j \in 1..(k - 1) : ~IsTitleLine(strip(lines[j]))
         IN [ title   |-> strip(Tail(strip(lines[i]))),
              content |-> strip(join(SubSeq(lines, i + 1, Len(lines)))) ]
    ELSE [ title |-> <<>>, content |-> <<>> ]

\* a parser that never takes the first line for a title
_parse_poetry_response_nofirst(response, language) ==
    LET s1 == TitleScan(split(strip(response)))
    IN [ title   |-> IF s1.title = <<>> THEN fallback_titles(language)
                     ELSE s1.title,
         content |-> IF s1.content = <<>> THEN strip(response) ELSE s1.content ]

_parse_poetry_response(response, language) ==
    LET lines == split(strip(response))
        s1    == TitleScan(lines)
        \* "if not title and lines": lines is never the empty list
        s2    == IF s1.title = <<>>
                 THEN [ title   |-> strip(lines[1]),
                        content |-> IF Len(lines) > 1
                                    THEN strip(join(Tail(lines)))
                                    ELSE strip(lines[1]) ]
                 ELSE s1
        title   == IF s2.title = <<>> THEN fallback_titles(language) ELSE s2.title
        content == IF s2.content = <<>> THEN strip(response) ELSE s2.content
    IN [ title |-> title, content |-> content ]

\* languages that have a prompt table in _create_poetry_prompt
PromptLanguages == {"korean", "english"}

PromptStyles == {"classic", "modern", "haiku", "free_verse"}

\* prompts.get(language, prompts["korean"]).get(style, prompts[language]["classic"])
\* The default of the second get is evaluated eagerly: a language without
\* a table raises KeyError.
_create_poetry_prompt(style, language) ==
    IF language \notin PromptLanguages
    THEN [ ok |-> FALSE, language |-> language, style |-> style ]
    ELSE [ ok |-> TRUE, language |-> language,
           style |-> IF style \in PromptStyles THEN style ELSE "classic" ]

\* _encode_image: PIL opens image_path as a local file
_encode_image(image_path) ==
    PathExists(image_path, disk) /\ disk[image_path.name]

\* generate_poetry_from_image.  api is what the vision API call does when it
\* is reached: None (it raises) or <<reply>>.
Failure == [ ok |-> FALSE, title |-> <<>>, content |-> <<>> ]

generate_poetry_from_image(image_path, style, language, api) ==
    IF ~_encode_image(image_path) THEN Failure
    ELSE IF ~_create_poetry_prompt(style, language).ok THEN Failure
    ELSE IF api = <<>> THEN Failure
    ELSE LET p == _parse_poetry_response(api[1], language)
         IN [ ok |-> TRUE, title |-> p.title, content |-> p.content ]

\* ------------------------------------------------------ record store
get_image_by_id(id) == IF id \in DOMAIN records THEN Some(records[id]) ELSE None

\* a write that stores the poem but forgets the poetry_generated flag
update_image_poetry_noflag(recs, image_id, poetry_title, poetry_content, now) ==
    IF image_id \notin DOMAIN recs THEN recs
    ELSE [recs EXCEPT ![image_id] =
            [@ EXCEPT !.poetry_title   = Some(poetry_title),
                      !.poetry_content = Some(poetry_content),
                      !.updated_at     = now]]

\* a write that leaves updated_at as it was
update_image_poetry_stale(recs, image_id, poetry_title, poetry_content, now) ==
    IF image_id \notin DOMAIN recs THEN recs
    ELSE [recs EXCEPT ![image_id] =
            [@ EXCEPT !.poetry_title     = Some(poetry_title),
                      !.poetry_content   = Some(poetry_content),
                      !.poetry_generated = TRUE]]

\* a write that also resets created_at
update_image_poetry_touch(recs, image_id, poetry_title, poetry_content, now) ==
    IF image_id \notin DOMAIN recs THEN recs
    ELSE [recs EXCEPT ![image_id] =
            [@ EXCEPT !.poetry_title     = Some(poetry_title),
                      !.poetry_content   = Some(poetry_content),
                      !.poetry_generated = TRUE,
                      !.created_at       = now,
                      !.updated_at       = now]]

\* a write that flips the flag
update_image_poetry_toggle(recs, image_id, poetry_title, poetry_content, now) ==
    IF image_id \notin DOMAIN recs THEN recs
    ELSE [recs EXCEPT ![image_id] =
            [@ EXCEPT !.poetry_title     = Some(poetry_title),
                      !.poetry_content   = Some(poetry_content),
                      !.poetry_generated = ~@,
                      !.updated_at       = now]]

\* a write that keeps the title of a row that already has one
update_image_poetry_partial(recs, image_id, poetry_title, poetry_content, now) ==
    IF image_id \notin DOMAIN recs THEN recs
    ELSE [recs EXCEPT ![image_id] =
            [@ EXCEPT !.poetry_title     = IF @ = None THEN Some(poetry_title) ELSE @,
                      !.poetry_content   = Some(poetry_content),
                      !.poetry_generated = TRUE,
                      !.updated_at       = now]]

update_image_poetry(recs, image_id, poetry_title, poetry_content, now) ==
    IF image_id \notin DOMAIN recs THEN recs
    ELSE [recs EXCEPT ![image_id] =
            [@ EXCEPT !.poetry_title     = Some(poetry_title),
                      !.poetry_content   = Some(poetry_content),
                      !.poetry_generated = TRUE,
                      !.updated_at       = now]]

\* ------------------------------------------------------------- inputs
FileNames ==
    { None, Some(<<>>), Some(<<"a", ".", "jpg">>), Some(<<"a", ".", "JPG">>),
      Some(<<"a", ".", "txt">>), Some(<<".", "jpg">>) }

ContentTypes == { None, Some(""), Some("image/jpeg"), Some("text/plain") }

Sizes == { None, Some(0), Some(MAX_FILE_SIZE), Some(MAX_FILE_SIZE + 1) }

Files == [ filename : FileNames, content_type : ContentTypes, size : Sizes ]

Faults == { "none", "s3_put", "disk_write", "commit", "refresh" }

Envs == [ fault : Faults, partial : BOOLEAN, unlink_fails : BOOLEAN,
          s3_delete_fails : BOOLEAN, decodable : BOOLEAN ]

NoFault == [ fault |-> "none", partial |-> FALSE, unlink_fails |-> FALSE,
             s3_delete_fails |-> FALSE, decodable |-> TRUE ]

\* an environment is enumerated once: what the run never consults is left
\* at its NoFault value
Consulted(env, used) ==
    /\ env.fault # "none" => env.fault \in used
    /\ env.partial => "partial" \in used
    /\ env.unlink_fails => "unlink_fails" \in used
    /\ env.s3_delete_fails => "s3_delete_fails" \in used
    /\ ~env.decodable => "decodable" \in used

\* query parameters of POST /upload: (auto_generate_poetry, style, language)
DefaultOpts == [ auto |-> TRUE, style |-> "classic", language |-> "korean" ]

UploadOpts ==
    { DefaultOpts,
      [ auto |-> FALSE, style |-> "classic", language |-> "korean" ],
      [ auto |-> TRUE, style |-> "haiku", language |-> "japanese" ],
      [ auto |-> TRUE, style |-> "sonnet", language |-> "korean" ] }

\* replies of the vision API
Replies ==
    { <<>>, <<"T", "a", "\n", "b">> }

ApiOutcomes == { None } \cup { Some(r) : r \in Replies }

Ids == 1..(MaxUploads + 1)

\* ---------------------------------------------------------- responses
NoFile == [ filename |-> None, content_type |-> None, size |-> None ]

Request(op) ==
    [ op |-> op, file |-> NoFile, env |-> NoFault, opts |-> DefaultOpts,
      api |-> None, id |-> 0, skip |-> 0, limit |-> 20, calls |-> 0 ]

Response(status, detail) ==
    [ status |-> status, detail |-> detail, image_id |-> None,
      title |-> None, poetry |-> None, rec |-> None, items |-> <<>>,
      file |-> None, media_type |-> None ]

\* a 404 that surfaces as a generic failure
NotFound_as_500 == Response(500, "Failed to generate poetry")

NotFound == Response(404, "Image not found")

\* ---------------------------------------------------- background task
\* a task that is already attempting when it is scheduled
NewTask_eager(image_id, style, language) ==
    [ image_id |-> image_id, style |-> style, language |-> language,
      pc |-> "attempt", attempt |-> 0, file_path |-> LocalPath(0),
      outcomes |-> <<>>, result |-> Failure, db |-> "unopened",
      orphaned |-> FALSE ]

NewTask(image_id, style, language) ==
    [ image_id |-> image_id, style |-> style, language |-> language,
      pc |-> "scheduled", attempt |-> 0, file_path |-> LocalPath(0),
      outcomes |-> <<>>, result |-> Failure,
      \* the task's SessionLocal(): "unopened", "open" or "closed"
      db |-> "unopened",
      \* history: the row was deleted after the task had found it
      orphaned |-> FALSE ]

Init ==
    /\ settings \in { [USE_S3_STORAGE |-> FALSE, S3_BUCKET_NAME |-> FALSE],
                      [USE_S3_STORAGE |-> TRUE,  S3_BUCKET_NAME |-> FALSE],
                      [USE_S3_STORAGE |-> TRUE,  S3_BUCKET_NAME |-> TRUE] }
    /\ dbEngine \in { "sqlite", "sequence" }
    /\ records = <<>>
    /\ lastId = 0
    /\ disk = <<>>
    /\ bucket = {}
    /\ uuidCtr = 0
    /\ clock = 0
    /\ tasks = <<>>
    /\ ngen = 0
    /\ req = Request("none")
    /\ resp = Response(0, "none")
    /\ deleted = {}

\* POST /upload
upload_image(file, env, opts) ==
    /\ req.op = "none"
    /\ LET r == save_uploaded_file(file, env, Some("testclient")) IN
       /\ Consulted(env, r.used)
       /\ r.status # 200 => opts = DefaultOpts
       /\ (r.status = 200 /\ opts.auto) => Len(tasks) < MaxTasks
       /\ records' = r.records
       /\ lastId' = r.lastId
       /\ disk' = r.disk
       /\ bucket' = r.bucket
       /\ uuidCtr' = r.uuidCtr
       /\ clock' = r.clock
       /\ tasks' = IF r.status = 200 /\ opts.auto
                   THEN Append(tasks, NewTask(r.image[1], opts.style, opts.language))
                   ELSE tasks
       /\ resp' = IF r.status = 200
                  THEN [ Response(200, IF opts.auto
                                       THEN "Image uploaded successfully. Poetry generation started in background."
                                       ELSE "Image uploaded successfully")
                         EXCEPT !.image_id = r.image ]
                  ELSE Response(r.status, r.detail)
    /\ req' = [ Request("upload") EXCEPT !.file = file, !.env = env, !.opts = opts ]
    /\ UNCHANGED << settings, dbEngine, ngen, deleted >>

\* a start that goes to the first attempt without the initial wait
TaskStart_nowait(t) ==
    /\ req.op = "none"
    /\ tasks[t].pc = "scheduled"
    /\ LET db_image == get_image_by_id(tasks[t].image_id) IN
       tasks' = IF db_image = None
                THEN [tasks EXCEPT ![t].pc = "noop", ![t].db = "closed"]
                ELSE [tasks EXCEPT ![t].pc = "attempt", ![t].db = "open",
                                   ![t].file_path = db_image[1].file_path]
    /\ UNCHANGED << settings, dbEngine, records, lastId, disk, bucket, uuidCtr,
                    clock, ngen, req, resp, deleted >>

\* a start that does not look for the row
TaskStart_nocheck(t) ==
    /\ req.op = "none"
    /\ tasks[t].pc = "scheduled"
    /\ tasks' = [tasks EXCEPT ![t].pc = "sleep2", ![t].db = "open"]
    /\ UNCHANGED << settings, dbEngine, records, lastId, disk, bucket, uuidCtr,
                    clock, ngen, req, resp, deleted >>

\* generate_poetry_background up to "await asyncio.sleep(2)"; "return"
\* inside try/finally closes the session
TaskStart(t) ==
    /\ req.op = "none"
    /\ tasks[t].pc = "scheduled"
    /\ LET db_image == get_image_by_id(tasks[t].image_id) IN
       tasks' = IF db_image = None
                THEN [tasks EXCEPT ![t].pc = "noop", ![t].db = "closed"]
                ELSE [tasks EXCEPT ![t].pc = "sleep2", ![t].db = "open",
                                   ![t].file_path = db_image[1].file_path]
    /\ UNCHANGED << settings, dbEngine, records, lastId, disk, bucket, uuidCtr,
                    clock, ngen, req, resp, deleted >>

\* asyncio.sleep(2) returns: the retry loop begins with attempt 0
TaskSleep2Done(t) ==
    /\ req.op = "none"
    /\ tasks[t].pc = "sleep2"
    /\ tasks' = [tasks EXCEPT ![t].pc = "attempt", ![t].attempt = 0]
    /\ UNCHANGED << settings, dbEngine, records, lastId, disk, bucket, uuidCtr,
                    clock, ngen, req, resp, deleted >>

\* one pass of "for attempt in range(max_retries)"; a success falls through
\* to update_image_poetry with no suspension in between
TaskAttempt(t, api) ==
    /\ req.op = "none"
    /\ tasks[t].pc = "attempt"
    /\ LET T == tasks[t]
           g == generate_poetry_from_image(T.file_path, T.style, T.language, api)
       IN
       IF g.ok
       THEN /\ records' = update_image_poetry(records, T.image_id, g.title,
                                              g.content, clock + 1)
            /\ clock' = IF T.image_id \in DOMAIN records THEN clock + 1 ELSE clock
            /\ tasks' = [tasks EXCEPT ![t].pc = "done",
                                      ![t].outcomes = Append(@, "ok"),
                                      ![t].result = g,
                                      ![t].db = "closed"]
       ELSE /\ tasks' = [tasks EXCEPT
                            ![t].pc = IF T.attempt < max_retries - 1
                                      THEN "sleep5" ELSE "failed",
                            ![t].db = IF T.attempt < max_retries - 1
                                      THEN "open" ELSE "closed",
                            ![t].outcomes = Append(@, "fail")]
            /\ UNCHANGED << records, clock >>
    /\ UNCHANGED << settings, dbEngine, lastId, disk, bucket, uuidCtr,
                    ngen, req, resp, deleted >>

\* a retry delay that never returns
TaskSleep5Done_stuck(t) ==
    /\ req.op = "none"
    /\ tasks[t].pc = "sleep5"
    /\ UNCHANGED vars

\* asyncio.sleep(retry_delay) returns: continue with the next attempt
TaskSleep5Done(t) ==
    /\ req.op = "none"
    /\ tasks[t].pc = "sleep5"
    /\ tasks' = [tasks EXCEPT ![t].pc = "attempt", ![t].attempt = @ + 1]
    /\ UNCHANGED << settings, dbEngine, records, lastId, disk, bucket, uuidCtr,
                    clock, ngen, req, resp, deleted >>

\* request bodies of POST /generate-poetry: (style, language)
GenerateOpts ==
    { [ style |-> "classic", language |-> "korean" ],
      [ style |-> "haiku", language |-> "japanese" ],
      [ style |-> "sonnet", language |-> "korean" ] }

\* PoetryGenerationRequest.validate_style / validate_language
RequestValid(o) ==
    /\ o.style \in {"classic", "modern", "haiku", "free_verse"}
    /\ o.language \in {"korean", "english", "japanese"}

\* POST /generate-poetry
generate_poetry(id, o, api) ==
    /\ req.op = "none"
    /\ ngen < MaxGenerate
    /\ LET db_image == get_image_by_id(id)
           g == generate_poetry_from_image(db_image[1].file_path, o.style,
                                           o.language, api)
           \* the environment is enumerated once: an API outcome that is
           \* never consulted is left at None
           reached == /\ RequestValid(o)
                      /\ db_image # None
                      /\ _encode_image(db_image[1].file_path)
                      /\ _create_poetry_prompt(o.style, o.language).ok
       IN
       /\ ~reached => api = None
       /\ IF ~RequestValid(o)
          THEN /\ resp' = Response(422, "Request validation failed")
               /\ UNCHANGED << records, clock >>
          ELSE IF db_image = None
          THEN /\ resp' = NotFound
               /\ UNCHANGED << records, clock >>
          ELSE IF ~g.ok
          THEN /\ resp' = Response(500, "Failed to generate poetry")
               /\ UNCHANGED << records, clock >>
          ELSE /\ records' = update_image_poetry(records, id, g.title, g.content,
                                                 clock + 1)
               /\ clock' = clock + 1
               /\ resp' = [ Response(200, "Poetry generated successfully")
                            EXCEPT !.image_id = Some(id),
                                   !.title = Some(g.title),
                                   !.poetry = Some(g.content) ]
    /\ ngen' = ngen + 1
    /\ req' = [ Request("generate") EXCEPT !.id = id, !.api = api,
                  !.opts = [ auto |-> FALSE, style |-> o.style,
                             language |-> o.language ],
                  \* one call of generate_poetry_from_image, no loop
                  !.calls = IF RequestValid(o) /\ get_image_by_id(id) # None
                            THEN 1 ELSE 0 ]
    /\ UNCHANGED << settings, dbEngine, lastId, disk, bucket, uuidCtr, tasks,
                    deleted >>

\* GET /{image_id}: the response computed from the current store
GetImageResponse(id) ==
    IF get_image_by_id(id) = None THEN NotFound
    ELSE [ Response(200, "ok") EXCEPT !.image_id = Some(id),
                                      !.rec = get_image_by_id(id) ]

get_image(id) ==
    /\ req.op = "none"
    /\ resp' = GetImageResponse(id)
    /\ req' = [ Request("get") EXCEPT !.id = id ]
    /\ UNCHANGED << settings, dbEngine, records, lastId, disk, bucket, uuidCtr,
                    clock, tasks, ngen, deleted >>

\* GET /{image_id}/file: FileResponse(path=file_path, media_type=mime_type)
\* when os.path.exists(file_path)
GetFileResponse(id) ==
    IF get_image_by_id(id) = None THEN NotFound
    ELSE LET r == records[id] IN
         IF ~PathExists(r.file_path, disk)
         THEN Response(404, "Image file not found on disk")
         ELSE [ Response(200, "ok") EXCEPT !.image_id = Some(id),
                                           !.file = Some(r.file_path.name),
                                           !.media_type = Some(r.mime_type) ]

get_image_file(id) ==
    /\ req.op = "none"
    /\ resp' = GetFileResponse(id)
    /\ req' = [ Request("file") EXCEPT !.id = id ]
    /\ UNCHANGED << settings, dbEngine, records, lastId, disk, bucket, uuidCtr,
                    clock, tasks, ngen, deleted >>

\* GET /{image_id}/status: poetry_generated is in detail, has_poetry is the
\* truthiness of poetry_content, poetry_title is passed through
GetStatusResponse(id) ==
    IF get_image_by_id(id) = None THEN NotFound
    ELSE LET r == records[id] IN
         [ Response(200, IF r.poetry_generated THEN "generated" ELSE "pending")
           EXCEPT !.image_id = Some(id),
                  !.title = r.poetry_title,
                  !.poetry = IF TruthySeq(r.poetry_content)
                             THEN Some(<<"has_poetry">>) ELSE None ]

get_poetry_status(id) ==
    /\ req.op = "none"
    /\ resp' = GetStatusResponse(id)
    /\ req' = [ Request("status") EXCEPT !.id = id ]
    /\ UNCHANGED << settings, dbEngine, records, lastId, disk, bucket, uuidCtr,
                    clock, tasks, ngen, deleted >>

\* order_by(Image.created_at.desc()) over a set of ids
RECURSIVE OrderDesc(_)
OrderDesc(S) ==
    IF S = {} THEN <<>>
    ELSE LET m == CHOOSE x \in S :
                      \A y \in S : records[y].created_at <= records[x].created_at
         IN <<m>> \o OrderDesc(S \ {m})

\* ImageService.get_images_list: .offset(skip).limit(limit).all().  The
\* values reach the database as they are: sqlite reads a negative LIMIT as
\* "no limit" and a negative OFFSET as 0.
get_images_list(skip, limit) ==
    LET all == OrderDesc(DOMAIN records)
        off == IF skip < 0 THEN 0 ELSE skip
        rest == SubSeq(all, off + 1, Len(all))
    IN IF limit < 0 THEN rest
       ELSE SubSeq(rest, 1, IF limit < Len(rest) THEN limit ELSE Len(rest))

\* "if limit > 100: limit = 100"
CapLimit(limit) == IF limit > 100 THEN 100 ELSE limit

\* other databases refuse a negative LIMIT or OFFSET; the handler catches
\* nothing, so the error surfaces as a 500
ListResponse(skip, limit) ==
    IF dbEngine # "sqlite" /\ (CapLimit(limit) < 0 \/ skip < 0)
    THEN Response(500, "Internal server error")
    ELSE [ Response(200, "ok") EXCEPT
             !.items = get_images_list(skip, CapLimit(limit)) ]

\* GET /
list_images(skip, limit) ==
    /\ req.op = "none"
    /\ resp' = ListResponse(skip, limit)
    /\ req' = [ Request("list") EXCEPT !.skip = skip, !.limit = limit ]
    /\ UNCHANGED << settings, dbEngine, records, lastId, disk, bucket, uuidCtr,
                    clock, tasks, ngen, deleted >>

\* ImageService.delete_image: the rows and the upload directory it leaves
ImageService_delete_image(id, env) ==
    IF id \notin DOMAIN records
    THEN [ ok |-> FALSE, records |-> records, disk |-> disk ]
    ELSE LET file_path == records[id].file_path IN
         [ ok |-> TRUE,
           records |-> Remove(records, id),
           disk |-> IF PathExists(file_path, disk)
                    THEN Unlink(disk, file_path.name, env) ELSE disk ]

\* DELETE /{image_id}
delete_image(id, unlink_fails) ==
    /\ req.op = "none"
    /\ LET env == [ NoFault EXCEPT !.unlink_fails = unlink_fails ]
           r == ImageService_delete_image(id, env)
       IN
       \* a failing unlink is enumerated only when unlink is called
       /\ unlink_fails => (id \in DOMAIN records
                           /\ PathExists(records[id].file_path, disk))
       /\ records' = r.records
       /\ disk' = r.disk
       /\ resp' = IF r.ok THEN Response(200, "Image deleted successfully")
                  ELSE NotFound
       /\ deleted' = IF r.ok THEN deleted \cup {id} ELSE deleted
       /\ tasks' = [ t \in DOMAIN tasks |->
                       IF r.ok /\ tasks[t].image_id = id
                          /\ tasks[t].pc \in {"sleep2", "attempt", "sleep5"}
                       THEN [ tasks[t] EXCEPT !.orphaned = TRUE ]
                       ELSE tasks[t] ]
       /\ req' = [ Request("delete") EXCEPT !.id = id, !.env = env ]
    /\ UNCHANGED << settings, dbEngine, lastId, bucket, uuidCtr, clock, ngen >>

\* the response has been sent and the handler has returned.  Handlers do not
\* suspend between their first and last statement, so requests are answered
\* one at a time, and the steps of background tasks run between them.
Respond ==
    /\ req.op # "none"
    /\ req' = Request("none")
    /\ resp' = Response(0, "none")
    /\ UNCHANGED << settings, dbEngine, records, lastId, disk, bucket, uuidCtr,
                    clock, tasks, ngen, deleted >>

\* uploads of the life-cycle specification: well-formed files, no I/O fault
GoodFiles ==
    { f \in Files : /\ f.filename \in { Some(<<"a", ".", "jpg">>) }
                    /\ f.content_type = Some("image/jpeg")
                    /\ f.size = Some(MAX_FILE_SIZE) }

GoodEnvs == { NoFault }

Next ==
    \/ /\ uuidCtr < MaxUploads
       /\ \E file \in GoodFiles, env \in GoodEnvs, opts \in UploadOpts :
             upload_image(file, env, opts)
    \/ \E t \in DOMAIN tasks : TaskStart(t)
    \/ \E t \in DOMAIN tasks : TaskSleep2Done(t)
    \/ \E t \in DOMAIN tasks, api \in ApiOutcomes : TaskAttempt(t, api)
    \/ \E t \in DOMAIN tasks : TaskSleep5Done(t)
    \/ \E id \in Ids, o \in GenerateOpts, api \in ApiOutcomes :
          generate_poetry(id, o, api)
    \/ \E id \in Ids : get_image(id)
    \/ \E id \in Ids : get_poetry_status(id)
    \/ \E id \in Ids : get_image_file(id)
    \/ \E skip \in {0, 1}, limit \in {1, 500} : list_images(skip, limit)
    \/ \E id \in Ids, unlink_fails \in BOOLEAN : delete_image(id, unlink_fails)
    \/ Respond

Spec == Init /\ [][Next]_vars

\* the upload specification: every file and every I/O fault, no generation
NextUpload ==
    \/ /\ uuidCtr < MaxFaultyUploads
       /\ \E file \in Files, env \in Envs :
             \E opts \in { o \in UploadOpts : o.language = "korean" /\ o.style = "classic" } :
                upload_image(file, env, opts)
    \/ \E id \in Ids : get_image(id)
    \/ \E id \in Ids, unlink_fails \in BOOLEAN : delete_image(id, unlink_fails)
    \/ Respond

SpecUpload == Init /\ [][NextUpload]_vars

\* ------------------------------------------------- the task, scheduled
\* the next step of background task t
TaskStep(t) ==
    /\ t \in DOMAIN tasks
    /\ \/ TaskStart(t)
       \/ TaskSleep2Done(t)
       \/ \E api \in ApiOutcomes : TaskAttempt(t, api)
       \/ TaskSleep5Done(t)

\* uploads, deletions and the steps of the tasks they schedule
NextTask ==
    \/ /\ uuidCtr < MaxUploads
       /\ \E file \in GoodFiles, env \in GoodEnvs, opts \in UploadOpts :
             upload_image(file, env, opts)
    \/ \E t \in DOMAIN tasks : TaskStart(t)
    \/ \E t \in DOMAIN tasks : TaskSleep2Done(t)
    \/ \E t \in DOMAIN tasks, api \in ApiOutcomes : TaskAttempt(t, api)
    \/ \E t \in DOMAIN tasks : TaskSleep5Done(t)
    \/ \E id \in Ids, unlink_fails \in BOOLEAN : delete_image(id, unlink_fails)
    \/ Respond

\* The event loop runs every callback that is ready: a handler that has
\* built its response returns, and a task whose sleep or API call has
\* returned gets its next step although requests keep arriving in between.
Fairness ==
    /\ WF_vars(Respond)
    /\ \A t \in 1..MaxTasks : SF_vars(TaskStep(t))

SpecTask == Init /\ [][NextTask]_vars /\ Fairness

\* ----------------------------------------------- the S3 client, called
\* what the boto3 call does when it is reached: it returns, or raises a
\* ClientError (with code 404 or another code) or some other exception
S3Outcomes == { "ok", "ClientError404", "ClientError", "Exception" }

S3Keys == 1..MaxKeys

Returned(v, b) == [ raised |-> FALSE, status |-> 0, value |-> Some(v), bucket |-> b ]

Raised(b) == [ raised |-> TRUE, status |-> 500, value |-> None, bucket |-> b ]

\* a delete that lets an unexpected exception escape
delete_file_raising(key, out) ==
    IF ~is_available THEN Returned(FALSE, bucket)
    ELSE IF out = "ok" THEN Returned(TRUE, bucket \ {key})
    ELSE IF out = "Exception" THEN Raised(bucket)
    ELSE Returned(FALSE, bucket)

\* S3Service.delete_file
delete_file(key, out) ==
    IF ~is_available THEN Returned(FALSE, bucket)
    ELSE IF out = "ok" THEN Returned(TRUE, bucket \ {key})
    ELSE Returned(FALSE, bucket)

\* S3Service.generate_presigned_url: the URL of the key, or None
generate_presigned_url(key, out) ==
    IF ~is_available THEN Returned(None, bucket)
    ELSE IF out = "ok" THEN Returned(Some(S3Url(key)), bucket)
    ELSE Returned(None, bucket)

\* S3Service.check_file_exists: head_object answers 404 for a missing key
check_file_exists(key, out) ==
    IF ~is_available THEN Returned(FALSE, bucket)
    ELSE IF out = "ok" THEN Returned(key \in bucket, bucket)
    ELSE Returned(FALSE, bucket)

\* S3Service.upload_file: every failure is raised as HTTPException(500)
upload_file(key, out) ==
    IF ~is_available THEN Raised(bucket)
    ELSE IF out = "ok" THEN Returned(<<key, S3Url(key)>>, bucket \cup {key})
    ELSE Raised(bucket)

S3Call(op, key, out) ==
    IF op = "s3_delete" THEN delete_file(key, out)
    ELSE IF op = "s3_presign" THEN generate_presigned_url(key, out)
    ELSE IF op = "s3_exists" THEN check_file_exists(key, out)
    ELSE upload_file(key, out)

\* one call of an S3Service method; the outcome of the boto3 call is
\* enumerated only when the call is reached
CallS3(op, key, out) ==
    /\ req.op = "none"
    /\ ~is_available => out = "ok"
    /\ (op \in {"s3_delete", "s3_presign", "s3_upload"}) => out # "ClientError404"
    /\ LET r == S3Call(op, key, out) IN
       /\ bucket' = r.bucket
       /\ resp' = [ Response(r.status, IF r.raised THEN "raised" ELSE "returned")
                    EXCEPT !.rec = r.value ]
    /\ req' = [ Request(op) EXCEPT !.id = key,
                                   !.env = [ NoFault EXCEPT !.fault = out ] ]
    /\ UNCHANGED << settings, dbEngine, records, lastId, disk, uuidCtr, clock,
                    tasks, ngen, deleted >>

Call_delete_file(key, out) == CallS3("s3_delete", key, out)

Call_generate_presigned_url(key, out) == CallS3("s3_presign", key, out)

Call_check_file_exists(key, out) == CallS3("s3_exists", key, out)

Call_upload_file(key, out) == CallS3("s3_upload", key, out)

InitS3 ==
    /\ Init
    /\ dbEngine = "sqlite"

NextS3 ==
    \/ \E key \in S3Keys, out \in S3Outcomes : Call_delete_file(key, out)
    \/ \E key \in S3Keys, out \in S3Outcomes : Call_generate_presigned_url(key, out)
    \/ \E key \in S3Keys, out \in S3Outcomes : Call_check_file_exists(key, out)
    \/ \E key \in S3Keys, out \in S3Outcomes : Call_upload_file(key, out)
    \/ Respond

SpecS3 == InitS3 /\ [][NextS3]_vars

\* ------------------------------------------- the pure functions, called
\* replies of the vision API up to MaxReplyLen tokens
ReplyTokens == { "T", "K", "a", " ", "\n" }

AllReplies == UNION { [1..n -> ReplyTokens] : n \in 0..MaxReplyLen }

\* language and style arguments, accepted or not
LanguageArgs == { "korean", "english", "japanese", "klingon" }

StyleArgs == { "classic", "modern", "haiku", "free_verse", "sonnet" }

InitPure ==
    /\ Init
    /\ ~settings.USE_S3_STORAGE
    /\ dbEngine = "sqlite"

\* PoetryService._parse_poetry_response(response, language) is called and
\* returns (title, content)
Call_parse_poetry_response(response, language) ==
    /\ req.op = "none"
    /\ LET p == _parse_poetry_response(response, language) IN
       resp' = [ Response(0, "returned") EXCEPT !.title = Some(p.title),
                                                !.poetry = Some(p.content) ]
    /\ req' = [ Request("parse") EXCEPT
                  !.api = Some(response),
                  !.opts = [ DefaultOpts EXCEPT !.language = language ] ]
    /\ UNCHANGED << settings, dbEngine, records, lastId, disk, bucket, uuidCtr,
                    clock, tasks, ngen, deleted >>

\* PoetryService._create_poetry_prompt(style, language) is called and returns
\* the prompt of a (language, style) entry or raises KeyError
Call_create_poetry_prompt(style, language) ==
    /\ req.op = "none"
    /\ LET p == _create_poetry_prompt(style, language) IN
       resp' = IF p.ok
               THEN [ Response(0, "returned") EXCEPT
                        !.title = Some(<<p.language, p.style>>) ]
               ELSE Response(0, "KeyError")
    /\ req' = [ Request("prompt") EXCEPT
                  !.opts = [ DefaultOpts EXCEPT !.style = style,
                                                !.language = language ] ]
    /\ UNCHANGED << settings, dbEngine, records, lastId, disk, bucket, uuidCtr,
                    clock, tasks, ngen, deleted >>

NextPure ==
    \/ \E response \in AllReplies, language \in LanguageArgs :
          Call_parse_poetry_response(response, language)
    \/ \E style \in StyleArgs, language \in LanguageArgs :
          Call_create_poetry_prompt(style, language)
    \/ Respond

SpecPure == InitPure /\ [][NextPure]_vars

\* ------------------------------------------------ the list endpoint
\* The images table outlives the process: the service starts on whatever
\* rows earlier runs left.  Row i was created at time i under file name i.
StoredFile == [ filename |-> Some(<<"a", ".", "jpg">>),
                content_type |-> Some("image/jpeg"),
                size |-> Some(MAX_FILE_SIZE) ]

StoredRows(n) ==
    [ i \in 1..n |-> Image(i, i, StoredFile, LocalPath(i), Some(100), None, i) ]

RowCounts == { 0, 1, 2, MaxRows - 1, MaxRows }

SkipArgs == { 0 - 1, 0, 1, 50 }

LimitArgs == { 0 - 1, 0, 1, 20, 100, 101, 500 }

InitList ==
    /\ settings = [USE_S3_STORAGE |-> FALSE, S3_BUCKET_NAME |-> FALSE]
    /\ dbEngine \in { "sqlite", "sequence" }
    /\ \E n \in RowCounts :
          /\ records = StoredRows(n)
          /\ lastId = n
          /\ disk = [ i \in 1..n |-> TRUE ]
          /\ uuidCtr = n
          /\ clock = n
    /\ bucket = {}
    /\ tasks = <<>>
    /\ ngen = 0
    /\ req = Request("none")
    /\ resp = Response(0, "none")
    /\ deleted = {}

NextList ==
    \/ \E skip \in SkipArgs, limit \in LimitArgs : list_images(skip, limit)
    \/ Respond

SpecList == InitList /\ [][NextList]_vars

TypeOK ==
    /\ DOMAIN records \subseteq 1..MaxUploads
    /\ \A id \in DOMAIN records : records[id].id = id

\* ------------------------------------------------------------ properties
IsStep(op) == req.op = "none" /\ req'.op = op

Oversize(file) == file.size # None /\ file.size[1] > MAX_FILE_SIZE

C2_ExhaustedRetriesContained ==
    [][ \A t \in DOMAIN tasks :
          /\ tasks'[t].pc = "failed"
                => tasks'[t].outcomes = <<"fail", "fail", "fail">>
          /\ ( /\ tasks[t].outcomes = <<"fail", "fail">>
               /\ tasks'[t].outcomes = <<"fail", "fail", "fail">> )
             => /\ tasks'[t].pc = "failed"
                /\ records' = records
                /\ resp' = resp
                /\ \A id \in Ids :
                      /\ GetImageResponse(id)' = GetImageResponse(id)
                      /\ GetStatusResponse(id)' = GetStatusResponse(id)
                /\ ListResponse(0, 100)' = ListResponse(0, 100)
                /\ tasks[t].image_id \in DOMAIN records
                      => /\ GetImageResponse(tasks[t].image_id)'.status = 200
                         /\ GetStatusResponse(tasks[t].image_id)'.status = 200
      ]_vars

C2_Witness ==
    \E t \in DOMAIN tasks :
        /\ tasks[t].pc = "failed"
        /\ tasks[t].outcomes = <<"fail", "fail", "fail">>
        /\ tasks[t].image_id \in DOMAIN records
        /\ ~records[tasks[t].image_id].poetry_generated
        /\ records[tasks[t].image_id].poetry_title = None

\* C3: every record with poetry_generated set holds a non-empty title and a
\* non-empty body.
C3_GeneratedImpliesNonEmpty ==
    \A id \in DOMAIN records :
        records[id].poetry_generated
            => /\ TruthySeq(records[id].poetry_title)
               /\ TruthySeq(records[id].poetry_content)

\* C4: a successful upload adds exactly one row, under the id the response
\* carries; the row is not generated, has no title and no body, every other
\* row is untouched, and fetch-by-id of that id answers 200 with the row.
C4_UploadAddsOneRecord ==
    [][ (IsStep("upload") /\ resp'.status = 200)
          => \E id \in Ids :
                /\ resp'.image_id = Some(id)
                /\ id \notin DOMAIN records
                /\ DOMAIN records' = DOMAIN records \cup {id}
                /\ \A j \in DOMAIN records : records'[j] = records[j]
                /\ records'[id].id = id
                /\ ~records'[id].poetry_generated
                /\ records'[id].poetry_title = None
                /\ records'[id].poetry_content = None
                /\ GetImageResponse(id)'.status = 200
                /\ GetImageResponse(id)'.rec = Some(records'[id])
      ]_vars

C4_Witness ==
    /\ req.op = "upload"
    /\ resp.status = 200
    /\ resp.image_id = Some(2)
    /\ DOMAIN records = {1, 2}
    /\ records[1].poetry_generated
    /\ ~records[2].poetry_generated
    /\ records[2].poetry_title = None

\* C5: an upload whose declared size exceeds MAX_FILE_SIZE is answered 413
\* "File too large" whatever its filename and content type, and leaves the
\* rows, the upload directory and the bucket as they were.
C5_OversizeRejected ==
    [][ (IsStep("upload") /\ Oversize(req'.file))
          => /\ resp'.status = 413
             /\ resp'.detail = "File too large"
             /\ records' = records
             /\ disk' = disk
             /\ bucket' = bucket
      ]_vars

C5_Witness ==
    /\ req.op = "upload"
    /\ Oversize(req.file)
    /\ req.file.filename = Some(<<"a", ".", "txt">>)
    /\ req.file.content_type = Some("text/plain")
    /\ resp.status = 413

\* what C6 calls a disallowed type, with the extension taken as written
BadTypeAsWritten(file) ==
    \/ /\ TruthySeq(file.filename)
       /\ _get_file_extension(file.filename[1]) \notin ALLOWED_EXTENSIONS
    \/ /\ TruthyStr(file.content_type)
       /\ file.content_type[1] \notin ALLOWED_MIME_TYPES

\* upper-case tokens of the file-name alphabet and their lower-case forms
UpperOf == { <<"JPG", "jpg">>, <<"A", "a">> }

\* ext equals an allowed extension up to the case of its letters
AllowedIgnoringCase(ext) ==
    \E e \in ALLOWED_EXTENSIONS :
        /\ Len(e) = Len(ext)
        /\ \A i \in 1..Len(e) : ext[i] = e[i] \/ <<ext[i], e[i]>> \in UpperOf

\* ... and with the extension compared without regard to case
BadTypeLowered(file) ==
    \/ /\ TruthySeq(file.filename)
       /\ ~AllowedIgnoringCase(_get_file_extension(file.filename[1]))
    \/ /\ TruthyStr(file.content_type)
       /\ file.content_type[1] \notin ALLOWED_MIME_TYPES

TypeRejected == /\ resp'.status = 400
                /\ resp'.detail \in {"File extension not allowed",
                                     "MIME type not allowed"}
                /\ records' = records
                /\ disk' = disk
                /\ bucket' = bucket

\* C6 as stated: an upload within the size limit whose filename is present
\* with an extension outside the allowed set, or whose content type is
\* present and outside the allowed MIME set, is answered 400 "not allowed"
\* and stores nothing.
C6_Original ==
    [][ (IsStep("upload") /\ ~Oversize(req'.file) /\ BadTypeAsWritten(req'.file))
          => TypeRejected
      ]_vars

\* C6 amended: the same with the extension compared after lower-casing; and
\* an upload within the size limit that has no such extension and no such
\* content type (in particular one without filename or without content
\* type) is not answered 400 or 413.
C6_TypeRejected ==
    [][ (IsStep("upload") /\ ~Oversize(req'.file))
          => /\ BadTypeLowered(req'.file) => TypeRejected
             /\ ~BadTypeLowered(req'.file) => resp'.status \notin {400, 413}
      ]_vars

C6_Witness ==
    /\ req.op = "upload"
    /\ req.file.filename = Some(<<"a", ".", "jpg">>)
    /\ req.file.content_type = Some("text/plain")
    /\ req.file.size = Some(MAX_FILE_SIZE)
    /\ resp.status = 400
    /\ resp.detail = "MIME type not allowed"

\* C7: after a successful upload that did not write to the bucket (S3 off, or
\* on but unavailable) the row's location is the local path and the file is
\* still there; the local copy is gone only if the blob is in the bucket.
C7_LocalCopyKept ==
    [][ (IsStep("upload") /\ resp'.status = 200)
          => LET r == records'[resp'.image_id[1]] IN
             /\ ~(settings.USE_S3_STORAGE /\ is_available)
                   => /\ r.file_path = LocalPath(r.filename)
                      /\ PathExists(r.file_path, disk')
             /\ r.filename \notin DOMAIN disk' => r.filename \in bucket'
      ]_vars

\* the upload entered the try block of save_uploaded_file
EnteredTry(file) == _validate_file(file).status = 200 /\ file.filename # None

\* C8: when an upload fails after validation, the 500 names the failure that
\* caused it, the file this upload wrote is gone unless unlink failed and the
\* blob this upload put is gone unless the bucket delete failed.
C8_FailedUploadCleansUp ==
    [][ (IsStep("upload") /\ EnteredTry(req'.file) /\ resp'.status # 200)
          => LET e == req'.env
                 name == uuidCtr'
             IN
             /\ uuidCtr' = uuidCtr + 1
             /\ resp'.status = 500
             /\ e.fault = "s3_put" => resp'.detail = "S3 upload failed"
             /\ e.fault = "disk_write" => resp'.detail = "Failed to save file to disk"
             /\ e.fault = "commit" => resp'.detail = "commit failed"
             /\ e.fault = "refresh" => resp'.detail = "refresh failed"
             /\ e.fault = "none" => resp'.detail = "validation error for ImageCreate"
             /\ ~e.unlink_fails => name \notin DOMAIN disk'
             /\ ~e.s3_delete_fails => name \notin bucket'
             /\ \A n \in DOMAIN disk : n \in DOMAIN disk'
             /\ bucket \subseteq bucket'
      ]_vars

C8_Witness ==
    /\ req.op = "upload"
    /\ req.env.fault = "commit"
    /\ ~req.env.unlink_fails
    /\ ~req.env.s3_delete_fails
    /\ settings.USE_S3_STORAGE /\ is_available
    /\ resp.status = 500
    /\ resp.detail = "commit failed"
    /\ uuidCtr = 1
    /\ disk = <<>>
    /\ bucket = {}

\* C9: a DELETE of an existing row answers 200 and removes the row, and the
\* local blob file too unless unlink failed; a DELETE of an unknown id answers
\* 404 and changes nothing; and once DELETE has answered 200 for an id,
\* fetch-by-id and status answer 404 for that id from then on.
C9_DeleteIsFinal ==
    /\ [][ IsStep("delete")
             => IF req'.id \in DOMAIN records
                THEN /\ resp'.status = 200
                     /\ req'.id \notin DOMAIN records'
                     /\ ~req'.env.unlink_fails
                           => ~PathExists(records[req'.id].file_path, disk')
                ELSE /\ resp'.status = 404
                     /\ UNCHANGED << records, disk, bucket >>
         ]_vars
    /\ [](\A id \in deleted :
             /\ GetImageResponse(id).status = 404
             /\ GetStatusResponse(id).status = 404)

\* C10: a DELETE answered 200 for a row whose blob is in the bucket leaves no
\* blob under that key.
C10_DeleteRemovesBlob ==
    [][ ( /\ IsStep("delete")
          /\ resp'.status = 200
          /\ req'.id \in DOMAIN records
          /\ records[req'.id].file_path.store = "s3" )
          => records[req'.id].file_path.name \notin bucket'
      ]_vars

\* the reply of the parse call in flight, its lines and the returned pair
ParseReply == req.api[1]

HasMarkerLine(lines) == \E i \in 1..Len(lines) : IsTitleLine(strip(lines[i]))

FirstMarker(lines) ==
    CHOOSE i \in 1..Len(lines) :
        /\ IsTitleLine(strip(lines[i]))
        /\ \A j \in 1..(i - 1) : ~IsTitleLine(strip(lines[j]))

\* C16: prompt selection returns a prompt for every (language, style): a
\* language without a table (japanese included) selects from the korean
\* table, an unknown style selects the classic prompt of the chosen language.
C16_PromptSelectionTotal ==
    req.op = "prompt"
        => LET l == IF req.opts.language \in {"korean", "english"}
                    THEN req.opts.language ELSE "korean"
               st == IF req.opts.style \in {"classic", "modern", "haiku", "free_verse"}
                     THEN req.opts.style ELSE "classic"
           IN /\ resp.detail = "returned"
              /\ resp.title = Some(<<l, st>>)

\* C17: when some line of the reply, trimmed, starts with a title marker, the
\* parser returns title = the trimmed text after the marker on the first such
\* line and body = the lines after that line joined by newlines and trimmed.
C17_MarkerCase ==
    (req.op = "parse" /\ HasMarkerLine(split(ParseReply)))
        => LET lines == split(ParseReply)
               i == FirstMarker(lines)
           IN /\ resp.title = Some(strip(Tail(strip(lines[i]))))
              /\ resp.poetry = Some(strip(join(SubSeq(lines, i + 1, Len(lines)))))

\* C18: when no line of the reply starts with a title marker and the reply,
\* trimmed, is not empty, the parser returns title = its first line trimmed
\* and body = the remaining lines joined and trimmed, or that same line when
\* there is only one; for an empty reply the title is the fallback of the
\* language, the korean one for a language without a fallback.
C18_NoMarkerCase ==
    (req.op = "parse" /\ ~HasMarkerLine(split(ParseReply)))
        => LET lines == split(strip(ParseReply))
               language == req.opts.language
           IN IF strip(ParseReply) # <<>>
              THEN /\ resp.title = Some(strip(lines[1]))
                   /\ resp.poetry = Some(IF Len(lines) > 1
                                         THEN strip(join(Tail(lines)))
                                         ELSE strip(lines[1]))
              ELSE resp.title =
                      Some(IF language = "english"
                           THEN <<"A Poem Inspired by an Image">>
                           ELSE IF language = "japanese"
                           THEN <<"japanese fallback title">>
                           ELSE <<"korean fallback title">>)

C18_Witness ==
    /\ req.op = "parse"
    /\ ParseReply = <<" ", "a", "\n", "a">>
    /\ resp.title = Some(<<"a">>)
    /\ resp.poetry = Some(<<"a">>)

\* the style and language values the API documents as accepted
OptionsAccepted(o) ==
    /\ o.style \in {"classic", "modern", "haiku", "free_verse"}
    /\ o.language \in {"korean", "english", "japanese"}

ContainsNotFound(detail) ==
    detail \in {"Image not found", "Image file not found on disk"}

\* C11: POST /generate-poetry for an existing row makes one call of the
\* generation client; when the call fails the answer is 500 and the rows are
\* unchanged; when it succeeds the row holds the returned title and body, is
\* marked generated and has a later updated_at, nothing else changes, and the
\* response carries the same title and body.
C11_GenerateOnce ==
    [][ ( /\ IsStep("generate")
          /\ OptionsAccepted(req'.opts)
          /\ req'.id \in DOMAIN records )
          => /\ req'.calls = 1
             /\ resp'.status \in {200, 500}
             /\ req'.api = None => resp'.status = 500
             /\ resp'.status = 500 => records' = records
             /\ resp'.status = 200
                   => /\ resp'.image_id = Some(req'.id)
                      /\ resp'.title # None
                      /\ resp'.poetry # None
                      /\ DOMAIN records' = DOMAIN records
                      /\ records'[req'.id].updated_at > records[req'.id].updated_at
                      /\ records' =
                            [records EXCEPT ![req'.id] =
                               [@ EXCEPT !.poetry_title = resp'.title,
                                         !.poetry_content = resp'.poetry,
                                         !.poetry_generated = TRUE,
                                         !.updated_at = records'[req'.id].updated_at]]
      ]_vars

C11_Witness ==
    /\ req.op = "generate"
    /\ resp.status = 200
    /\ req.calls = 1
    /\ resp.title = Some(<<"a">>)
    /\ resp.poetry = Some(<<"b">>)
    /\ req.id \in DOMAIN records
    /\ records[req.id].poetry_generated
    /\ records[req.id].poetry_content = Some(<<"b">>)
    /\ records[req.id].updated_at > records[req.id].created_at

\* C12: POST /generate-poetry for an id without a row answers 404 with a
\* message containing "not found", makes no call of the generation client
\* and leaves the rows as they were.
C12_GenerateUnknownId ==
    [][ ( /\ IsStep("generate")
          /\ OptionsAccepted(req'.opts)
          /\ req'.id \notin DOMAIN records )
          => /\ resp'.status = 404
             /\ ContainsNotFound(resp'.detail)
             /\ req'.calls = 0
             /\ records' = records
      ]_vars

C12_Witness ==
    /\ req.op = "generate"
    /\ req.id \notin DOMAIN records
    /\ DOMAIN records # {}
    /\ resp.status = 404
    /\ req.calls = 0

\* task t takes a step of its own (a deletion only marks its history)
TaskMoves(t) == [ tasks'[t] EXCEPT !.orphaned = tasks[t].orphaned ] # tasks[t]

\* C14: an upload with auto-generate answers 200 while its task has made no
\* attempt: the message says generation was started, the response has no
\* title and no body, and the task is scheduled with an empty list of
\* outcomes; every later step of a task runs with no response in flight and
\* changes no response.
C14_ResponseBeforeGeneration ==
    [][ /\ ( IsStep("upload") /\ resp'.status = 200 /\ req'.opts.auto )
           => /\ resp'.detail =
                   "Image uploaded successfully. Poetry generation started in background."
              /\ resp'.title = None
              /\ resp'.poetry = None
              /\ Len(tasks') = Len(tasks) + 1
              /\ tasks'[Len(tasks')].image_id = resp'.image_id[1]
              /\ tasks'[Len(tasks')].pc = "scheduled"
              /\ tasks'[Len(tasks')].outcomes = <<>>
              /\ ~records'[resp'.image_id[1]].poetry_generated
        /\ ( ~IsStep("upload") /\ \E t \in DOMAIN tasks : TaskMoves(t) )
           => /\ req.op = "none"
              /\ resp' = resp
              /\ req' = req
      ]_vars

C14_Witness ==
    /\ req.op = "upload"
    /\ resp.status = 200
    /\ req.opts.auto
    /\ resp.image_id = Some(2)
    /\ Len(tasks) = 1
    /\ tasks[1].image_id = 2
    /\ tasks[1].pc = "scheduled"
    /\ ~records[2].poetry_generated

\* C15: on POST /upload and on POST /generate-poetry a style or language
\* outside the accepted values is rejected at request validation: nothing is
\* stored, no task is scheduled, and the generation client is never called
\* with such a value, by a handler or by a task.
C15_InvalidOptionsRejected ==
    [][ /\ ( (IsStep("upload") \/ IsStep("generate"))
             /\ ~OptionsAccepted(req'.opts) )
           => /\ resp'.status = 422
              /\ req'.calls = 0
              /\ UNCHANGED << records, disk, bucket, tasks >>
        /\ \A t \in DOMAIN tasks :
              tasks'[t].outcomes # tasks[t].outcomes => OptionsAccepted(tasks[t])
      ]_vars

\* C19: the list endpoint returns at most 100 rows whatever limit and skip
\* are requested, and at most limit rows for a limit from 0 to 100.
C19_ListCapped ==
    [][ IsStep("list")
          => /\ Len(resp'.items) <= 100
             /\ req'.limit \in 0..100 => Len(resp'.items) <= req'.limit
      ]_vars

\* the blob of a row is where the upload stored it
BlobExists(r) ==
    IF r.file_path.store = "s3" THEN r.file_path.name \in bucket
    ELSE r.file_path.name \in DOMAIN disk

\* C20: GET /{id}/file answers 200 with the blob and the stored MIME type
\* for every row whose blob exists where the upload stored it, and 404 when
\* the row is unknown or the blob is missing.
C20_FileServed ==
    [][ IsStep("file")
          => IF req'.id \in DOMAIN records /\ BlobExists(records[req'.id])
             THEN /\ resp'.status = 200
                  /\ resp'.file = Some(records[req'.id].file_path.name)
                  /\ resp'.media_type = Some(records[req'.id].mime_type)
             ELSE resp'.status = 404
      ]_vars

Started(t) == t \in DOMAIN tasks /\ tasks[t].pc # "scheduled"

Terminal(t) == t \in DOMAIN tasks /\ tasks[t].pc \in {"done", "failed", "noop"}

\* C13: every background task that has started eventually reaches a terminal
\* state: done, failed after the last retry, or noop.
C13_TaskTerminates ==
    \A t \in 1..MaxTasks : [](Started(t) => <>Terminal(t))

C13_Witness ==
    /\ Terminal(1)
    /\ tasks[1].pc = "done"
    /\ tasks[1].outcomes = <<"fail", "ok">>

\* the declared size is absent or 0
NoSize(file) == file.size = None \/ file.size[1] = 0

\* C21: every row has file_size > 0 and width and height absent or >= 1; an
\* upload whose declared size is absent or 0 adds no row and is not answered
\* 200, and the file and the blob it wrote are gone unless the cleanup call
\* itself failed; an upload whose file cannot be decoded for its dimensions
\* (and has no other fault) is answered 200 with width and height absent.
C21_RowsWellFormed ==
    /\ [](\A id \in DOMAIN records :
             /\ records[id].file_size > 0
             /\ records[id].width = None \/ records[id].width[1] >= 1
             /\ records[id].height = None \/ records[id].height[1] >= 1)
    /\ [][ IsStep("upload")
             => /\ NoSize(req'.file)
                   => /\ resp'.status # 200
                      /\ records' = records
                      /\ ~req'.env.unlink_fails => DOMAIN disk' = DOMAIN disk
                      /\ ~req'.env.s3_delete_fails => bucket' = bucket
                /\ ( /\ ~NoSize(req'.file)
                     /\ uuidCtr' # uuidCtr
                     /\ req'.env.fault = "none"
                     /\ ~req'.env.decodable )
                   => /\ resp'.status = 200
                      /\ records'[resp'.image_id[1]].width = None
                      /\ records'[resp'.image_id[1]].height = None
         ]_vars

C21_Witness ==
    /\ req.op = "upload"
    /\ req.file.size = Some(0)
    /\ req.file.filename = Some(<<"a", ".", "jpg">>)
    /\ settings.USE_S3_STORAGE /\ is_available
    /\ resp.status = 500
    /\ resp.detail = "validation error for ImageCreate"
    /\ uuidCtr = 1
    /\ records = <<>>
    /\ disk = <<>>
    /\ bucket = {}

\* the client is configured and the call of the step went through
S3CallWentThrough == settings.USE_S3_STORAGE /\ settings.S3_BUCKET_NAME
                     /\ req'.env.fault = "ok"

\* C22: delete_file, check_file_exists and generate_presigned_url never
\* raise: when the client is not configured or the underlying call fails
\* they return False, False and None and leave the bucket alone; upload_file
\* raises a 500 and puts nothing when the client is not configured.
C22_S3ClientNeverRaises ==
    [][ /\ IsStep("s3_delete")
           => /\ resp'.detail = "returned"
              /\ ~S3CallWentThrough => (resp'.rec = Some(FALSE) /\ bucket' = bucket)
        /\ IsStep("s3_exists")
           => /\ resp'.detail = "returned"
              /\ ~S3CallWentThrough => (resp'.rec = Some(FALSE) /\ bucket' = bucket)
        /\ IsStep("s3_presign")
           => /\ resp'.detail = "returned"
              /\ ~S3CallWentThrough => (resp'.rec = Some(None) /\ bucket' = bucket)
        /\ ( IsStep("s3_upload")
             /\ ~(settings.USE_S3_STORAGE /\ settings.S3_BUCKET_NAME) )
           => /\ resp'.detail = "raised"
              /\ resp'.status = 500
              /\ bucket' = bucket
      ]_vars

C22_Witness ==
    /\ req.op = "s3_delete"
    /\ req.env.fault = "Exception"
    /\ req.id \in bucket
    /\ resp.detail = "returned"
    /\ resp.rec = Some(FALSE)

\* task t makes a call of the generation client in this step
TaskCalls(t) == tasks'[t].outcomes # tasks[t].outcomes

AllFailed(o) == \A i \in 1..Len(o) : o[i] = "fail"

\* C23: a background task calls the generation client at most 3 times,
\* makes no call after its first successful call, and writes the rows at
\* most once: only in the step of its one successful call.
C23_AtMostThreeCalls ==
    /\ [](\A t \in DOMAIN tasks :
             /\ Len(tasks[t].outcomes) <= 3
             /\ AllFailed(SubSeq(tasks[t].outcomes, 1, Len(tasks[t].outcomes) - 1)))
    /\ [][ \A t \in DOMAIN tasks :
             /\ TaskCalls(t)
                   => /\ AllFailed(tasks[t].outcomes)
                      /\ Len(tasks'[t].outcomes) = Len(tasks[t].outcomes) + 1
             /\ (TaskMoves(t) /\ records' # records)
                   => /\ AllFailed(tasks[t].outcomes)
                      /\ tasks'[t].outcomes = Append(tasks[t].outcomes, "ok")
         ]_vars

C23_Witness ==
    /\ Len(tasks) = 1
    /\ tasks[1].outcomes = <<"ok">>
    /\ tasks[1].pc = "done"
    /\ tasks[1].image_id \in DOMAIN records
    /\ records[tasks[1].image_id].poetry_generated
    /\ req.op = "none"

\* C24: a task whose row exists waits 2 once, between its start and its
\* first attempt; after a failed attempt that is not the third it waits 5
\* once before the next attempt; after a successful attempt and after the
\* failed third attempt it waits no more and is finished.
C24_WaitOrdering ==
    [][ \A t \in DOMAIN tasks :
          LET a == tasks[t]
              b == tasks'[t]
          IN
          /\ (b.pc = "sleep2" /\ a.pc # "sleep2")
                => (a.pc = "scheduled" /\ b.outcomes = <<>>)
          /\ (a.pc = "scheduled" /\ b.pc # "scheduled" /\ a.image_id \in DOMAIN records)
                => b.pc = "sleep2"
          /\ TaskCalls(t) => a.pc = "attempt"
          /\ (b.pc = "attempt" /\ a.pc # "attempt")
                => \/ (a.pc = "sleep2" /\ a.outcomes = <<>>)
                   \/ (a.pc = "sleep5" /\ a.outcomes # <<>> /\ b.outcomes = a.outcomes)
          /\ (b.pc = "sleep5" /\ a.pc # "sleep5")
                => /\ a.pc = "attempt"
                   /\ b.outcomes = Append(a.outcomes, "fail")
                   /\ Len(b.outcomes) < 3
          /\ (TaskCalls(t) /\ b.outcomes[Len(b.outcomes)] = "ok") => b.pc = "done"
          /\ (TaskCalls(t) /\ b.outcomes[Len(b.outcomes)] = "fail")
                => b.pc = IF Len(b.outcomes) < 3 THEN "sleep5" ELSE "failed"
          /\ a.pc \in {"done", "failed", "noop"} => b = a
      ]_vars

C24_Witness ==
    /\ Len(tasks) = 1
    /\ tasks[1].pc = "sleep5"
    /\ tasks[1].outcomes = <<"fail", "fail">>

\* C25: a task that finds no row for its id when it starts goes straight to
\* noop: it has made no call and makes none, no row changes, its session is
\* closed, and it takes no further step.
C25_NoopWhenRowMissing ==
    [][ \A t \in DOMAIN tasks :
          /\ ( /\ tasks[t].pc = "scheduled"
               /\ tasks'[t].pc # "scheduled"
               /\ tasks[t].image_id \notin DOMAIN records )
             => /\ tasks'[t].pc = "noop"
                /\ tasks'[t].outcomes = <<>>
                /\ tasks'[t].db = "closed"
                /\ records' = records
          /\ tasks[t].pc = "noop" => tasks'[t] = tasks[t]
      ]_vars

C25_Witness ==
    /\ Len(tasks) = 1
    /\ tasks[1].pc = "noop"
    /\ tasks[1].db = "closed"
    /\ tasks[1].outcomes = <<>>
    /\ tasks[1].image_id \notin DOMAIN records
    /\ tasks[1].image_id \in deleted

\* the step writes a generation result: a task's successful attempt or a
\* POST /generate-poetry answered 200
GenerationWrite ==
    \/ \E t \in DOMAIN tasks :
          TaskCalls(t) /\ tasks'[t].outcomes[Len(tasks'[t].outcomes)] = "ok"
    \/ (IsStep("generate") /\ resp'.status = 200)

\* C26: a generation write changes only poetry_title, poetry_content,
\* poetry_generated and updated_at of one row and nothing of any other row;
\* created_at of a row never changes.
C26_WriteFrame ==
    [][ /\ GenerationWrite
           => /\ DOMAIN records' = DOMAIN records
              /\ \A id \in DOMAIN records :
                    records'[id] =
                       [records[id] EXCEPT
                          !.poetry_title = records'[id].poetry_title,
                          !.poetry_content = records'[id].poetry_content,
                          !.poetry_generated = records'[id].poetry_generated,
                          !.updated_at = records'[id].updated_at]
              /\ \A i, j \in DOMAIN records :
                    (records'[i] # records[i] /\ records'[j] # records[j]) => i = j
        /\ \A id \in DOMAIN records \cap DOMAIN records' :
              records'[id].created_at = records[id].created_at
      ]_vars

C26_Witness ==
    /\ DOMAIN records = {1, 2}
    /\ records[2].poetry_generated
    /\ records[2].updated_at > records[2].created_at
    /\ ~records[1].poetry_generated
    /\ records[1].updated_at = records[1].created_at
    /\ req.op = "generate"
    /\ req.id = 2
    /\ resp.status = 200

\* the last call of task t succeeded in this step
TaskSucceeds(t) ==
    TaskCalls(t) /\ tasks'[t].outcomes[Len(tasks'[t].outcomes)] = "ok"

PairOf(r) == << r.poetry_title, r.poetry_content >>

C28_DeletedDuringTask ==
    /\ [][ \A t \in DOMAIN tasks :
             (tasks[t].orphaned /\ tasks'[t] # tasks[t])
                => /\ records' = records
                   /\ TaskSucceeds(t) => tasks'[t].pc = "done"
         ]_vars
    /\ [](\A t \in DOMAIN tasks :
             tasks[t].orphaned
                => /\ GetImageResponse(tasks[t].image_id).status = 404
                   /\ GetStatusResponse(tasks[t].image_id).status = 404)

\* C29: every call of the generation client for a row that has not been
\* deleted passes a location that names an existing local file, also for
\* rows uploaded in object-storage mode.
C29_LocationIsLocalFile ==
    [][ /\ \A t \in DOMAIN tasks :
              ( /\ TaskCalls(t)
                /\ ~tasks[t].orphaned
                /\ tasks[t].image_id \in DOMAIN records )
                 => PathExists(tasks[t].file_path, disk)
        /\ (IsStep("generate") /\ req'.calls = 1)
              => PathExists(records[req'.id].file_path, disk)
      ]_vars

\* a generation failed in this step
GenerationFails ==
    \/ \E t \in DOMAIN tasks :
          TaskCalls(t) /\ tasks'[t].outcomes[Len(tasks'[t].outcomes)] = "fail"
    \/ (IsStep("generate") /\ resp'.status # 200)

\* C30: poetry_generated of a row, once true, stays true as long as the row
\* exists, and so do its title and body; a failed generation changes no row.
C30_FlagMonotonic ==
    [][ /\ \A id \in DOMAIN records \cap DOMAIN records' :
              records[id].poetry_generated
                 => /\ records'[id].poetry_generated
                    /\ records'[id].poetry_title # None
                    /\ records'[id].poetry_content # None
        /\ GenerationFails => records' = records
      ]_vars

C30_Witness ==
    /\ req.op = "generate"
    /\ resp.status = 500
    /\ req.calls = 1
    /\ req.id \in DOMAIN records
    /\ records[req.id].poetry_generated
    /\ records[req.id].poetry_title = Some(<<"a">>)
    /\ records[req.id].poetry_content = Some(<<"b">>)

====
